---------------------------- MODULE Spec2Model ----------------------------
(***************************************************************************)
(* Model of pytorchvideo/data/clip_sampling.py: the three clip samplers    *)
(* (UniformClipSampler, RandomClipSampler, ConstantClipsPerVideoSampler),  *)
(* the make_clip_sampler dispatcher, and the data-loading driver that      *)
(* feeds each call the previous clip_end_sec.                              *)
(*                                                                         *)
(* Numbers.  Times are exact rationals <<n, d>> (d > 0, lowest terms):     *)
(* the model follows the arithmetic of the code without floating-point     *)
(* rounding.  Arguments are whole numbers of ticks; one tick is the        *)
(* default eps of UniformClipSampler (1e-6 s), so eps = 1 is the default   *)
(* and a stride below eps is expressible with eps = 2.                     *)
(***************************************************************************)
EXTENDS Integers, Sequences, FiniteSets, TLC

\* ------------------------------------------------------------- bounds
\* largest clip_duration argument
MaxClipDuration == 3
\* largest stride argument (one above MaxClipDuration, to violate the assert)
MaxStride == 4
\* largest eps argument, in ticks
MaxEps == 2
\* largest clips_per_video argument
MaxClipsPerVideo == 3
\* largest augs_per_clip argument
MaxAugsPerClip == 2
\* configuration values go down to -MaxNeg
MaxNeg == 1
\* largest video_duration / last_clip_time argument
MaxVideoDuration == 5
\* calls made on one instance
MaxCalls == 8

\* default of the eps parameter (1e-6 s = one tick)
DefaultEps == 1

\* the example of the UniformClipSampler docstring, in frames: a video of 39
\* frames, clips of 32 frames, a stride of 16 frames
DocVideoFrames == 39
DocClipFrames == 32
DocStrideFrames == 16

\* ------------------------------------------------------------- rationals
Abs(i) == IF i < 0 THEN -i ELSE i

RECURSIVE GCD(_, _)
GCD(a, b) == IF b = 0 THEN a ELSE GCD(b, a % b)

\* the rational n/d in lowest terms with a positive denominator (d # 0)
Norm(n, d) ==
    LET g == GCD(Abs(n), Abs(d))
        s == IF d < 0 THEN -1 ELSE 1
    IN <<(s * n) \div g, (s * d) \div g>>

Rat(i) == <<i, 1>>
RAdd(a, b) == Norm(a[1] * b[2] + b[1] * a[2], a[2] * b[2])
RSub(a, b) == Norm(a[1] * b[2] - b[1] * a[2], a[2] * b[2])
RMul(a, b) == Norm(a[1] * b[1], a[2] * b[2])
\* a / b, for b # 0
RDiv(a, b) == Norm(a[1] * b[2], a[2] * b[1])
RLt(a, b) == a[1] * b[2] < b[1] * a[2]
RLe(a, b) == a[1] * b[2] <= b[1] * a[2]
RMax(a, b) == IF RLt(a, b) THEN b ELSE a
RAbs(a) == <<Abs(a[1]), a[2]>>
Zero == Rat(0)

\* ------------------------------------------------------------- values
\* Optional[float]: <<>> is None, <<v>> is the value v
None == <<>>
Some(v) == <<v>>

\* the result of a failed construction
NoSampler == [class |-> "NoneType"]
NoError == [type |-> "None", msg |-> ""]
NoClip == [class |-> "NoneType"]

ClipInfo(clip_start_sec, clip_end_sec, clip_index, aug_index, is_last_clip) ==
    [class |-> "ClipInfo",
     clip_start_sec |-> clip_start_sec,
     clip_end_sec |-> clip_end_sec,
     clip_index |-> clip_index,
     aug_index |-> aug_index,
     is_last_clip |-> is_last_clip]

VARIABLES
    pc,             \* "new": nothing constructed, "idle": between videos,
                    \* "sampling": inside a video, "failed": an error was raised
    sampling_type,  \* the name given to make_clip_sampler
    args,           \* the positional arguments given with it
    self,           \* the sampler instance (its fields), or NoSampler
    err,            \* the error raised by the last operation, or NoError
    video_duration, \* argument of the last call
    last_clip_time, \* argument of the next call of the driver / of the last call
    out,            \* the ClipInfo returned by the last call, or NoClip
    hist,           \* the ClipInfos the driver got for the current video
    ncalls,         \* calls made on the instance
    threads,        \* per caller running __call__ step by step: its position
                    \* in the code and its local variables
    overlapped      \* whether a caller entered __call__ while another was inside

vars == <<pc, sampling_type, args, self, err, video_duration, last_clip_time, out, hist, ncalls,
          threads, overlapped>>


\* ------------------------------------------------------------- construction
\* ClipSampler.__init__: the fields every sampler starts with
ClipSamplerInit(class, clip_duration) ==
    [class |-> class,
     clip_duration |-> clip_duration,
     current_clip_index |-> 0,
     current_aug_index |-> 0]

\* mutant: "stride or clip_duration", which also replaces a stride of 0
EffectiveStride_Falsy(stride, clip_duration) ==
    IF stride # None /\ stride[1] # 0 THEN stride[1] ELSE clip_duration

\* self._stride = stride if stride is not None else clip_duration
EffectiveStride(stride, clip_duration) ==
    IF stride # None THEN stride[1] ELSE clip_duration

\* the condition of the assert in UniformClipSampler.__init__
StrideOk(stride, clip_duration) ==
    stride > 0 /\ stride <= clip_duration

\* UniformClipSampler(clip_duration, stride=None, backpad_last=False, eps=1e-6)
UniformClipSampler(a) ==
    LET clip_duration == a[1]
        stride == IF Len(a) >= 2 THEN a[2] ELSE None
        backpad_last == IF Len(a) >= 3 THEN a[3] ELSE FALSE
        eps == IF Len(a) >= 4 THEN a[4] ELSE DefaultEps
        obj == [class |-> "UniformClipSampler",
                clip_duration |-> clip_duration,
                current_clip_index |-> ClipSamplerInit("UniformClipSampler", clip_duration).current_clip_index,
                current_aug_index |-> ClipSamplerInit("UniformClipSampler", clip_duration).current_aug_index,
                stride |-> EffectiveStride(stride, clip_duration),
                eps |-> eps,
                backpad_last |-> backpad_last]
    IN IF StrideOk(obj.stride, clip_duration)
       THEN [obj |-> obj, err |-> NoError]
       ELSE [obj |-> NoSampler,
             err |-> [type |-> "AssertionError",
                      msg |-> "stride must be >0 and <= clip_duration"]]

\* RandomClipSampler(clip_duration): the inherited ClipSampler.__init__
RandomClipSampler(a) ==
    [obj |-> ClipSamplerInit("RandomClipSampler", a[1]), err |-> NoError]

\* mutant: a constructor that asserts clips_per_video > 0
ConstantClipsPerVideoSampler_Asserting(a) ==
    IF a[2] > 0
    THEN [obj |-> [class |-> "ConstantClipsPerVideoSampler",
                   clip_duration |-> a[1],
                   current_clip_index |-> 0,
                   current_aug_index |-> 0,
                   clips_per_video |-> a[2],
                   augs_per_clip |-> IF Len(a) >= 3 THEN a[3] ELSE 1],
          err |-> NoError]
    ELSE [obj |-> NoSampler,
          err |-> [type |-> "AssertionError", msg |-> "clips_per_video must be > 0"]]

\* ConstantClipsPerVideoSampler(clip_duration, clips_per_video, augs_per_clip=1)
ConstantClipsPerVideoSampler(a) ==
    LET base == ClipSamplerInit("ConstantClipsPerVideoSampler", a[1])
    IN [obj |-> [class |-> base.class,
                 clip_duration |-> base.clip_duration,
                 current_clip_index |-> base.current_clip_index,
                 current_aug_index |-> base.current_aug_index,
                 clips_per_video |-> a[2],
                 augs_per_clip |-> IF Len(a) >= 3 THEN a[3] ELSE 1],
        err |-> NoError]

\* mutant: the last branch constructs a RandomClipSampler instead of raising
make_clip_sampler_DefaultRandom(type, a) ==
    IF type = "uniform" THEN UniformClipSampler(a)
    ELSE IF type = "constant_clips_per_video" THEN ConstantClipsPerVideoSampler(a)
    ELSE RandomClipSampler(a)

\* make_clip_sampler(sampling_type, *args)
make_clip_sampler(type, a) ==
    IF type = "uniform" THEN UniformClipSampler(a)
    ELSE IF type = "random" THEN RandomClipSampler(a)
    ELSE IF type = "constant_clips_per_video" THEN ConstantClipsPerVideoSampler(a)
    ELSE [obj |-> NoSampler,
          err |-> [type |-> "NotImplementedError", msg |-> type \o " not supported"]]

\* ------------------------------------------------------------- inputs
\* names given to make_clip_sampler: the three supported ones and others
SamplingTypes ==
    {"uniform", "random", "constant_clips_per_video",
     "Uniform", "constant", "uniform_random", ""}

CfgDurations == (-MaxNeg)..MaxClipDuration
CfgStrides == {None} \cup {Some(s) : s \in (-MaxNeg)..MaxStride}
CfgEps == 1..MaxEps
CfgClips == (-MaxNeg)..MaxClipsPerVideo
CfgAugs == (-MaxNeg)..MaxAugsPerClip

UniformArgs ==
    {<<d>> : d \in CfgDurations}
    \cup {<<d, s>> : d \in CfgDurations, s \in CfgStrides}
    \cup {<<d, s, b>> : d \in CfgDurations, s \in CfgStrides, b \in BOOLEAN}
    \cup {<<d, s, b, e>> : d \in CfgDurations, s \in CfgStrides, b \in BOOLEAN, e \in CfgEps}
    \cup {<<DocClipFrames, Some(DocStrideFrames), b>> : b \in BOOLEAN}
RandomArgs == {<<d>> : d \in CfgDurations}
ConstantArgs ==
    {<<d, c>> : d \in CfgDurations, c \in CfgClips}
    \cup {<<d, c, a>> : d \in CfgDurations, c \in CfgClips, a \in CfgAugs}

\* the argument tuples tried with a name: those of the constructor's arity
\* for a supported name; an unsupported name never looks at them
ArgsFor(type) ==
    IF type = "uniform" THEN UniformArgs
    ELSE IF type = "random" THEN RandomArgs
    ELSE IF type = "constant_clips_per_video" THEN ConstantArgs
    ELSE RandomArgs \cup ConstantArgs

VideoDurations == 1..MaxVideoDuration
\* the videos the driver gives to instance s: the docstring's sampler also
\* gets the docstring's video
VideoDurationsFor(s) ==
    IF s.clip_duration = DocClipFrames
    THEN VideoDurations \cup {DocVideoFrames}
    ELSE VideoDurations
LastClipTimes == 0..MaxVideoDuration

\* ------------------------------------------------------------- UniformClipSampler
\* mutant: the start is not clamped at 0
UniformClipStart_NoClamp(s, last_clip_time_) ==
    RSub(last_clip_time_, RMax(Zero, Rat(s.clip_duration - s.stride)))

\* mutant: the overlap clip_duration - stride is not taken off
UniformClipStart_NoOverlap(s, last_clip_time_) ==
    RMax(last_clip_time_, Zero)

\* clip_start = max(last_clip_time - max(0, clip_duration - stride), 0)
UniformClipStart(s, last_clip_time_) ==
    RMax(RSub(last_clip_time_, RMax(Zero, Rat(s.clip_duration - s.stride))), Zero)

\* mutant: clip_end is not recomputed after the shift (line 127 missing)
Backpad_KeepEnd(s, clip_start, clip_end, video_duration_) ==
    LET buffer_amount == RMax(Zero, RSub(clip_end, video_duration_))
        shifted == RMax(Zero, RSub(clip_start, buffer_amount))
    IN <<shifted, clip_end>>

\* the backpad branch of _clip_start_end: the window <<clip_start, clip_end>>
\* shifted back by the amount it overshoots the video, clamped at 0
Backpad(s, clip_start, clip_end, video_duration_) ==
    LET buffer_amount == RMax(Zero, RSub(clip_end, video_duration_))
        shifted == RMax(Zero, RSub(clip_start, buffer_amount))
    IN <<shifted, RAdd(shifted, Rat(s.clip_duration))>>

\* UniformClipSampler._clip_start_end: <<clip_start, clip_end>>
clip_start_end(s, last_clip_time_, video_duration_, backpad_last) ==
    LET clip_start == UniformClipStart(s, last_clip_time_)
        clip_end == RAdd(clip_start, Rat(s.clip_duration))
    IN IF backpad_last
       THEN Backpad(s, clip_start, clip_end, video_duration_)
       ELSE <<clip_start, clip_end>>

\* mutant: next_clip_end >= video_duration ends the video
UniformIsLastClip_Geq(s, clip_end, next_clip_end, video_duration_) ==
    IF s.backpad_last
    THEN RLt(RAbs(RSub(next_clip_end, clip_end)), Rat(s.eps))
    ELSE RLe(video_duration_, next_clip_end)

\* mutant: the comparison with eps is <=
UniformIsLastClip_EpsLe(s, clip_end, next_clip_end, video_duration_) ==
    IF s.backpad_last
    THEN RLe(RAbs(RSub(next_clip_end, clip_end)), Rat(s.eps))
    ELSE RLt(video_duration_, next_clip_end)

\* is_last_clip of UniformClipSampler.__call__
UniformIsLastClip(s, clip_end, next_clip_end, video_duration_) ==
    IF s.backpad_last
    THEN RLt(RAbs(RSub(next_clip_end, clip_end)), Rat(s.eps))
    ELSE RLt(video_duration_, next_clip_end)

\* mutant: the counter is reset when the last clip of a video is returned
UniformCall_ResetOnLast(s, last_clip_time_, video_duration_) ==
    LET se == clip_start_end(s, last_clip_time_, video_duration_, s.backpad_last)
        nxt == clip_start_end(s, se[2], video_duration_, s.backpad_last)
        is_last_clip == UniformIsLastClip(s, se[2], nxt[2], video_duration_)
        clip_index == s.current_clip_index
    IN [info |-> ClipInfo(se[1], se[2], clip_index, 0, is_last_clip),
        self |-> [s EXCEPT !.current_clip_index = IF is_last_clip THEN 0 ELSE @ + 1],
        err |-> NoError]

\* UniformClipSampler.__call__: the ClipInfo returned and the instance after
UniformCall(s, last_clip_time_, video_duration_) ==
    LET se == clip_start_end(s, last_clip_time_, video_duration_, s.backpad_last)
        nxt == clip_start_end(s, se[2], video_duration_, s.backpad_last)
        is_last_clip == UniformIsLastClip(s, se[2], nxt[2], video_duration_)
        clip_index == s.current_clip_index
    IN [info |-> ClipInfo(se[1], se[2], clip_index, 0, is_last_clip),
        self |-> [s EXCEPT !.current_clip_index = @ + 1],
        err |-> NoError]

\* ------------------------------------------------------------- RandomClipSampler
\* mutant: the difference is not clamped at 0
MaxPossibleClipStart_NoClamp(s, video_duration_) ==
    RSub(video_duration_, Rat(s.clip_duration))

\* max_possible_clip_start = max(video_duration - self._clip_duration, 0)
MaxPossibleClipStart(s, video_duration_) ==
    RMax(RSub(video_duration_, Rat(s.clip_duration)), Zero)

\* random.uniform(a, b), a <= b: any value of [a, b]; the model draws from
\* both ends, the middle and the whole ticks in between
RandomUniform(a, b) ==
    {a, b, RDiv(RAdd(a, b), Rat(2))}
    \cup {Rat(i) : i \in {j \in (a[1] \div a[2])..(b[1] \div b[2]) : RLe(a, Rat(j))}}

\* RandomClipSampler.__call__ when random.uniform returns clip_start_sec
RandomCall(s, clip_start_sec) ==
    [info |-> ClipInfo(clip_start_sec, RAdd(clip_start_sec, Rat(s.clip_duration)),
                       0, 0, TRUE),
     self |-> s,
     err |-> NoError]

\* ------------------------------------------------------------- ConstantClipsPerVideoSampler
\* mutant: the guard compares with >=
ConstantIsLastClip_GuardGeq(s, current_clip_index, uniform_clip, max_possible_clip_start) ==
    \/ current_clip_index >= s.clips_per_video
    \/ RLe(max_possible_clip_start, RMul(uniform_clip, Rat(current_clip_index)))

\* the condition that ends the video (lines 234-237), on the updated counter
ConstantIsLastClip(s, current_clip_index, uniform_clip, max_possible_clip_start) ==
    \/ current_clip_index >= s.clips_per_video
    \/ RLt(max_possible_clip_start, RMul(uniform_clip, Rat(current_clip_index)))

\* mutant: the augmentation counter is compared with >
AdvanceAug_Gt(s) ==
    IF s.current_aug_index + 1 > s.augs_per_clip
    THEN <<s.current_clip_index + 1, 0>>
    ELSE <<s.current_clip_index, s.current_aug_index + 1>>

\* the counters after lines 227-230: <<current_clip_index, current_aug_index>>
AdvanceAug(s) ==
    IF s.current_aug_index + 1 >= s.augs_per_clip
    THEN <<s.current_clip_index + 1, 0>>
    ELSE <<s.current_clip_index, s.current_aug_index + 1>>

\* mutant: the counter is never reset
ResetOnLast_Never(is_last_clip, current_clip_index) ==
    current_clip_index

\* self._current_clip_index after lines 234-239: reset when the video ends
ResetOnLast(is_last_clip, current_clip_index) ==
    IF is_last_clip THEN 0 ELSE current_clip_index

\* ConstantClipsPerVideoSampler.__call__
ConstantCall(s, video_duration_) ==
    LET max_possible_clip_start == MaxPossibleClipStart(s, video_duration_)
    IN IF s.clips_per_video = 0
       THEN \* max_possible_clip_start / 0 raises before anything is written
            [info |-> NoClip, self |-> s,
             err |-> [type |-> "ZeroDivisionError", msg |-> "division by zero"]]
       ELSE LET uniform_clip == RDiv(max_possible_clip_start, Rat(s.clips_per_video))
                clip_start_sec == RMul(uniform_clip, Rat(s.current_clip_index))
                clip_index == s.current_clip_index
                aug_index == s.current_aug_index
                adv == AdvanceAug(s)
                is_last_clip == ConstantIsLastClip(s, adv[1], uniform_clip,
                                                   max_possible_clip_start)
            IN [info |-> ClipInfo(clip_start_sec,
                                  RAdd(clip_start_sec, Rat(s.clip_duration)),
                                  clip_index, aug_index, is_last_clip),
                self |-> [s EXCEPT !.current_clip_index = ResetOnLast(is_last_clip, adv[1]),
                                   !.current_aug_index = adv[2]],
                err |-> NoError]

\* ------------------------------------------------------------- the state machine
\* the callers of the step-by-step executions of __call__
Threads == {1, 2}

\* a caller outside __call__ that has not called yet
IdleThread ==
    [pc |-> "ready", d |-> 0, clip_start_sec |-> Zero, clip_index |-> 0,
     aug_index |-> 0, tmp |-> 0, is_last_clip |-> FALSE, ret |-> NoClip]

Init ==
    /\ pc = "new"
    /\ sampling_type = ""
    /\ args = <<>>
    /\ self = NoSampler
    /\ err = NoError
    /\ video_duration = 0
    /\ last_clip_time = Zero
    /\ out = NoClip
    /\ hist = <<>>
    /\ ncalls = 0
    /\ threads = [t \in Threads |-> IdleThread]
    /\ overlapped = FALSE

\* sampler = make_clip_sampler(type, *args)
MakeClipSampler ==
    /\ pc = "new"
    /\ \E type \in SamplingTypes : \E a \in ArgsFor(type) :
         LET r == make_clip_sampler(type, a)
         IN /\ sampling_type' = type
            /\ args' = a
            /\ self' = r.obj
            /\ err' = r.err
            /\ pc' = IF r.err = NoError THEN "idle" ELSE "failed"
    /\ UNCHANGED <<video_duration, last_clip_time, out, hist, ncalls, threads, overlapped>>

\* the driver takes up a video: no clip sampled yet, so last_clip_time = 0.0
StartVideo ==
    /\ pc = "idle"
    /\ ncalls < MaxCalls
    /\ \E d \in VideoDurationsFor(self) : video_duration' = d
    /\ last_clip_time' = Zero
    /\ hist' = <<>>
    /\ pc' = "sampling"
    /\ UNCHANGED <<sampling_type, args, self, err, out, ncalls, threads, overlapped>>

\* what a call that returned (or raised) r leaves behind, in the driver loop:
\* the next call is fed clip_end_sec, and is_last_clip ends the video
DriverTakes(r) ==
    /\ self' = r.self
    /\ err' = r.err
    /\ ncalls' = ncalls + 1
    /\ out' = r.info
    /\ IF r.err # NoError
       THEN /\ pc' = "failed"
            /\ UNCHANGED <<last_clip_time, hist>>
       ELSE /\ hist' = Append(hist, r.info)
            /\ last_clip_time' = r.info.clip_end_sec
            /\ pc' = IF r.info.is_last_clip THEN "idle" ELSE "sampling"
    /\ UNCHANGED <<sampling_type, args, video_duration, threads, overlapped>>

DriverUniform ==
    /\ pc = "sampling"
    /\ self.class = "UniformClipSampler"
    /\ ncalls < MaxCalls
    /\ DriverTakes(UniformCall(self, last_clip_time, Rat(video_duration)))

DriverRandom ==
    /\ pc = "sampling"
    /\ self.class = "RandomClipSampler"
    /\ ncalls < MaxCalls
    /\ \E x \in RandomUniform(Zero, MaxPossibleClipStart(self, Rat(video_duration))) :
         DriverTakes(RandomCall(self, x))

DriverConstant ==
    /\ pc = "sampling"
    /\ self.class = "ConstantClipsPerVideoSampler"
    /\ ncalls < MaxCalls
    /\ DriverTakes(ConstantCall(self, Rat(video_duration)))

Next ==
    \/ MakeClipSampler
    \/ StartVideo
    \/ DriverUniform
    \/ DriverRandom
    \/ DriverConstant

Spec == Init /\ [][Next]_vars

\* a call with arguments of the caller's choosing, outside any driver loop
CallerTakes(r, t, d) ==
    /\ self' = r.self
    /\ err' = r.err
    /\ ncalls' = ncalls + 1
    /\ out' = r.info
    /\ last_clip_time' = Rat(t)
    /\ video_duration' = d
    /\ pc' = IF r.err # NoError THEN "failed" ELSE "idle"
    /\ UNCHANGED <<sampling_type, args, hist, threads, overlapped>>

AnyUniform ==
    /\ pc = "idle"
    /\ self.class = "UniformClipSampler"
    /\ ncalls < MaxCalls
    /\ \E t \in LastClipTimes : \E d \in VideoDurations :
         CallerTakes(UniformCall(self, Rat(t), Rat(d)), t, d)

AnyRandom ==
    /\ pc = "idle"
    /\ self.class = "RandomClipSampler"
    /\ ncalls < MaxCalls
    /\ \E t \in LastClipTimes : \E d \in VideoDurations :
         \E x \in RandomUniform(Zero, MaxPossibleClipStart(self, Rat(d))) :
           CallerTakes(RandomCall(self, x), t, d)

AnyConstant ==
    /\ pc = "idle"
    /\ self.class = "ConstantClipsPerVideoSampler"
    /\ ncalls < MaxCalls
    /\ \E t \in LastClipTimes : \E d \in VideoDurations :
         CallerTakes(ConstantCall(self, Rat(d)), t, d)

NextAny ==
    \/ MakeClipSampler
    \/ AnyUniform
    \/ AnyRandom
    \/ AnyConstant

SpecAny == Init /\ [][NextAny]_vars

\* the chain of calls on one video carried on past is_last_clip: every call is
\* fed the previous clip_end_sec and the same video_duration
ChainUniform ==
    /\ pc = "sampling"
    /\ self.class = "UniformClipSampler"
    /\ ncalls < MaxCalls
    /\ LET r == UniformCall(self, last_clip_time, Rat(video_duration))
       IN /\ self' = r.self
          /\ err' = r.err
          /\ ncalls' = ncalls + 1
          /\ out' = r.info
          /\ hist' = Append(hist, r.info)
          /\ last_clip_time' = r.info.clip_end_sec
    /\ UNCHANGED <<pc, sampling_type, args, video_duration, threads, overlapped>>

NextChain ==
    \/ MakeClipSampler
    \/ StartVideo
    \/ ChainUniform

SpecChain == Init /\ [][NextChain]_vars

\* ------------------------------------------------------------- __call__ step by step
\* Two callers run __call__ on the same fresh instance.  A step is one read
\* or one write of a field of the instance: "x += 1" is a read of x into a
\* temporary and, in a later step, the write of the temporary plus one.
\* the videos the two callers pass: one no longer than the shortest clip and
\* the longest one
RaceDurations == {1, MaxVideoDuration}
Inside(t) == threads[t].pc \notin {"ready", "done", "raised"}

\* thread t moves to position p with its locals changed as in the record upd
Goto(t, p, upd) ==
    threads' = [threads EXCEPT ![t] =
                  [f \in DOMAIN IdleThread |->
                     IF f = "pc" THEN p
                     ELSE IF f \in DOMAIN upd THEN upd[f]
                     ELSE threads[t][f]]]

\* mutant: the temporary is written back as it was read
StoreBack_Stale(tmp) == tmp

\* the value "x += 1" writes back for the temporary it read
StoreBack(tmp) == tmp + 1

RaceFrame == UNCHANGED <<pc, sampling_type, args, err, video_duration, last_clip_time,
                         out, hist, overlapped>>

\* caller t calls sampler(0.0, d, {})
RaceEnter(t) ==
    /\ pc = "idle"
    /\ threads[t].pc = "ready"
    /\ self.class \in {"UniformClipSampler", "ConstantClipsPerVideoSampler"}
    /\ \E d \in RaceDurations :
         Goto(t, IF self.class = "UniformClipSampler" THEN "u159" ELSE "c221", [d |-> d])
    /\ overlapped' = (overlapped \/ \E o \in Threads \ {t} : Inside(o))
    /\ UNCHANGED <<pc, sampling_type, args, self, err, video_duration, last_clip_time,
                   out, hist, ncalls>>

\* line 159: clip_index = self._current_clip_index
RaceU159(t) ==
    /\ threads[t].pc = "u159"
    /\ Goto(t, "u160r", [clip_index |-> self.current_clip_index])
    /\ UNCHANGED <<self, ncalls>>
    /\ RaceFrame

\* line 160, self._current_clip_index += 1: the read
RaceU160r(t) ==
    /\ threads[t].pc = "u160r"
    /\ Goto(t, "u160w", [tmp |-> self.current_clip_index])
    /\ UNCHANGED <<self, ncalls>>
    /\ RaceFrame

\* line 160, self._current_clip_index += 1: the write
RaceU160w(t) ==
    /\ threads[t].pc = "u160w"
    /\ self' = [self EXCEPT !.current_clip_index = StoreBack(threads[t].tmp)]
    /\ Goto(t, "u162", [tmp |-> threads[t].tmp])
    /\ UNCHANGED ncalls
    /\ RaceFrame

\* line 162: return ClipInfo(clip_start, clip_end, clip_index, 0, is_last_clip);
\* the window and is_last_clip (lines 146-157) depend on the arguments only
RaceU162(t) ==
    /\ threads[t].pc = "u162"
    /\ LET s == [self EXCEPT !.current_clip_index = threads[t].clip_index]
       IN Goto(t, "done", [ret |-> UniformCall(s, Zero, Rat(threads[t].d)).info])
    /\ ncalls' = ncalls + 1
    /\ UNCHANGED self
    /\ RaceFrame

\* lines 221-223: uniform_clip = max_possible_clip_start / clips_per_video
\* (raises for 0), clip_start_sec = uniform_clip * self._current_clip_index
RaceC221(t) ==
    /\ threads[t].pc = "c221"
    /\ IF self.clips_per_video = 0
       THEN Goto(t, "raised", [tmp |-> 0])
       ELSE Goto(t, "c224",
                 [clip_start_sec |->
                    RMul(RDiv(MaxPossibleClipStart(self, Rat(threads[t].d)),
                              Rat(self.clips_per_video)),
                         Rat(self.current_clip_index))])
    /\ UNCHANGED <<self, ncalls>>
    /\ RaceFrame

\* line 224: clip_index = self._current_clip_index
RaceC224(t) ==
    /\ threads[t].pc = "c224"
    /\ Goto(t, "c225", [clip_index |-> self.current_clip_index])
    /\ UNCHANGED <<self, ncalls>>
    /\ RaceFrame

\* line 225: aug_index = self._current_aug_index
RaceC225(t) ==
    /\ threads[t].pc = "c225"
    /\ Goto(t, "c227r", [aug_index |-> self.current_aug_index])
    /\ UNCHANGED <<self, ncalls>>
    /\ RaceFrame

\* line 227, self._current_aug_index += 1: the read
RaceC227r(t) ==
    /\ threads[t].pc = "c227r"
    /\ Goto(t, "c227w", [tmp |-> self.current_aug_index])
    /\ UNCHANGED <<self, ncalls>>
    /\ RaceFrame

\* line 227, self._current_aug_index += 1: the write
RaceC227w(t) ==
    /\ threads[t].pc = "c227w"
    /\ self' = [self EXCEPT !.current_aug_index = StoreBack(threads[t].tmp)]
    /\ Goto(t, "c228", [tmp |-> threads[t].tmp])
    /\ UNCHANGED ncalls
    /\ RaceFrame

\* line 228: if self._current_aug_index >= self._augs_per_clip
RaceC228(t) ==
    /\ threads[t].pc = "c228"
    /\ Goto(t, IF self.current_aug_index >= self.augs_per_clip THEN "c229r" ELSE "c234",
            [tmp |-> threads[t].tmp])
    /\ UNCHANGED <<self, ncalls>>
    /\ RaceFrame

\* line 229, self._current_clip_index += 1: the read
RaceC229r(t) ==
    /\ threads[t].pc = "c229r"
    /\ Goto(t, "c229w", [tmp |-> self.current_clip_index])
    /\ UNCHANGED <<self, ncalls>>
    /\ RaceFrame

\* line 229, self._current_clip_index += 1: the write
RaceC229w(t) ==
    /\ threads[t].pc = "c229w"
    /\ self' = [self EXCEPT !.current_clip_index = StoreBack(threads[t].tmp)]
    /\ Goto(t, "c230", [tmp |-> threads[t].tmp])
    /\ UNCHANGED ncalls
    /\ RaceFrame

\* line 230: self._current_aug_index = 0
RaceC230(t) ==
    /\ threads[t].pc = "c230"
    /\ self' = [self EXCEPT !.current_aug_index = 0]
    /\ Goto(t, "c234", [tmp |-> threads[t].tmp])
    /\ UNCHANGED ncalls
    /\ RaceFrame

\* lines 233-237: the test that ends the video, on the counter as it is now
RaceC234(t) ==
    /\ threads[t].pc = "c234"
    /\ LET max_possible_clip_start == MaxPossibleClipStart(self, Rat(threads[t].d))
           uniform_clip == RDiv(max_possible_clip_start, Rat(self.clips_per_video))
           is_last_clip == ConstantIsLastClip(self, self.current_clip_index, uniform_clip,
                                              max_possible_clip_start)
       IN Goto(t, IF is_last_clip THEN "c238" ELSE "c241", [is_last_clip |-> is_last_clip])
    /\ UNCHANGED <<self, ncalls>>
    /\ RaceFrame

\* line 238: self._current_clip_index = 0
RaceC238(t) ==
    /\ threads[t].pc = "c238"
    /\ self' = [self EXCEPT !.current_clip_index = 0]
    /\ Goto(t, "c241", [tmp |-> threads[t].tmp])
    /\ UNCHANGED ncalls
    /\ RaceFrame

\* lines 241-247: return ClipInfo(...)
RaceC241(t) ==
    /\ threads[t].pc = "c241"
    /\ Goto(t, "done",
            [ret |-> ClipInfo(threads[t].clip_start_sec,
                              RAdd(threads[t].clip_start_sec, Rat(self.clip_duration)),
                              threads[t].clip_index, threads[t].aug_index,
                              threads[t].is_last_clip)])
    /\ ncalls' = ncalls + 1
    /\ UNCHANGED self
    /\ RaceFrame

NextRace ==
    \/ MakeClipSampler
    \/ \E t \in Threads :
         \/ RaceEnter(t)
         \/ RaceU159(t)
         \/ RaceU160r(t)
         \/ RaceU160w(t)
         \/ RaceU162(t)
         \/ RaceC221(t)
         \/ RaceC224(t)
         \/ RaceC225(t)
         \/ RaceC227r(t)
         \/ RaceC227w(t)
         \/ RaceC228(t)
         \/ RaceC229r(t)
         \/ RaceC229w(t)
         \/ RaceC230(t)
         \/ RaceC234(t)
         \/ RaceC238(t)
         \/ RaceC241(t)

SpecRace == Init /\ [][NextRace]_vars

TypeOK ==
    /\ pc \in {"new", "idle", "sampling", "failed"}
    /\ ncalls \in 0..MaxCalls
    /\ video_duration \in (0..MaxVideoDuration) \cup {DocVideoFrames}

\* ------------------------------------------------------------- shared by the claims
IsUniform == self.class = "UniformClipSampler"
IsRandom == self.class = "RandomClipSampler"
IsConstant == self.class = "ConstantClipsPerVideoSampler"
\* the driver finished the current video: its last clip came with is_last_clip
VideoDone == pc = "idle" /\ hist # <<>>
Last(seq) == seq[Len(seq)]
Clip(a, b, i, g, l) == ClipInfo(Rat(a), Rat(b), i, g, l)

\* ------------------------------------------------------------- C1
C1Case ==
    /\ IsUniform
    /\ ~self.backpad_last
    /\ self.stride = self.clip_duration
    /\ video_duration >= self.clip_duration

\* the first window starts at 0, each window starts where the previous one
\* ended, and is_last_clip is set on the last window of a finished video only
C1Chain ==
    /\ hist # <<>> => hist[1].clip_start_sec = Zero
    /\ \A i \in 1..Len(hist) :
         /\ RSub(hist[i].clip_end_sec, hist[i].clip_start_sec) = Rat(self.clip_duration)
         /\ i > 1 => hist[i].clip_start_sec = hist[i - 1].clip_end_sec
         /\ hist[i].is_last_clip <=> (i = Len(hist) /\ pc = "idle")

C1Instance ==
    (/\ self.clip_duration = 1
     /\ video_duration = 3
     /\ ncalls = Len(hist)
     /\ VideoDone)
    => hist = <<Clip(0, 1, 0, 0, FALSE), Clip(1, 2, 1, 0, FALSE), Clip(2, 3, 2, 0, TRUE)>>

\* C1 as stated: UniformClipSampler, backpad_last=False, stride == clip_duration,
\* video_duration >= clip_duration: the windows of the driver loop tile
\* [0, video_duration) without gaps or overlaps, the last window ends at
\* video_duration, and is_last_clip is True exactly once, on the last window.
C1_TilesWholeVideo ==
    C1Case =>
        /\ C1Chain
        /\ VideoDone => Last(hist).clip_end_sec = Rat(video_duration)

\* C1 amended: as above, but the last window ends at the largest multiple of
\* clip_duration that is <= video_duration (at video_duration only when
\* video_duration is a multiple of clip_duration); the instance
\* clip_duration=1, stride=1, video_duration=3 yields the three stated clips.
C1_TilesWholeWindows ==
    C1Case =>
        /\ C1Chain
        /\ VideoDone =>
             Last(hist).clip_end_sec
               = Rat(self.clip_duration * (video_duration \div self.clip_duration))
        /\ C1Instance

\* a finished video of several windows whose tail is left uncovered
C1_Witness ==
    /\ C1Case
    /\ VideoDone
    /\ Len(hist) >= 2
    /\ RLt(Last(hist).clip_end_sec, Rat(video_duration))

\* ------------------------------------------------------------- C2
C2Case == IsUniform /\ self.backpad_last /\ VideoDone

WithinEps(x, y) == RLt(RAbs(RSub(x, y)), Rat(self.eps))

\* C2 as stated: UniformClipSampler with backpad_last=True, any stride in
\* (0, clip_duration], any video_duration > 0: the clip returned with
\* is_last_clip=True ends at video_duration (within eps).
C2_LastEndsAtVideoEnd ==
    C2Case => WithinEps(Last(hist).clip_end_sec, Rat(video_duration))

\* C2 amended: when stride >= eps the clip returned with is_last_clip=True ends
\* (within eps) at max(video_duration, clip_duration), hence at video_duration
\* when video_duration >= clip_duration; when stride < eps the first window
\* [0, clip_duration] is already returned with is_last_clip=True.
C2_LastEndsAtVideoEndOrClip ==
    C2Case =>
        IF self.stride >= self.eps
        THEN WithinEps(Last(hist).clip_end_sec,
                       RMax(Rat(video_duration), Rat(self.clip_duration)))
        ELSE /\ Len(hist) = 1
             /\ hist[1].clip_start_sec = Zero
             /\ hist[1].clip_end_sec = Rat(self.clip_duration)

\* a finished video whose last window was pulled back behind the previous end
C2_Witness ==
    /\ C2Case
    /\ self.stride >= self.eps
    /\ Len(hist) >= 2
    /\ RLt(Last(hist).clip_start_sec, hist[Len(hist) - 1].clip_end_sec)
    /\ Last(hist).clip_end_sec = Rat(video_duration)

\* ------------------------------------------------------------- C3
\* a ConstantClipsPerVideoSampler configured as its contract asks
ValidConstant ==
    /\ IsConstant
    /\ self.clips_per_video > 0
    /\ self.augs_per_clip >= 1

ClipsPerVideoTotal == self.clips_per_video * self.augs_per_clip

C3Instance ==
    (/\ self.clip_duration = 1
     /\ self.clips_per_video = 2
     /\ self.augs_per_clip = 2
     /\ video_duration = 3
     /\ VideoDone)
    => hist = <<Clip(0, 1, 0, 0, FALSE), Clip(0, 1, 0, 1, FALSE),
                Clip(1, 2, 1, 0, FALSE), Clip(1, 2, 1, 1, TRUE)>>

\* C3: ConstantClipsPerVideoSampler, clips_per_video > 0, augs_per_clip >= 1,
\* fixed video_duration: is_last_clip is False on the first
\* clips_per_video*augs_per_clip - 1 calls of a video and True on call number
\* clips_per_video*augs_per_clip, so a video takes exactly that many calls,
\* also when video_duration <= clip_duration; the instance (1, 2, 2) on a
\* video of 3 yields the four stated clips.
C3_CallsPerVideo ==
    ValidConstant =>
        /\ Len(hist) <= ClipsPerVideoTotal
        /\ \A i \in 1..Len(hist) : hist[i].is_last_clip <=> i = ClipsPerVideoTotal
        /\ VideoDone => Len(hist) = ClipsPerVideoTotal
        /\ C3Instance

\* a finished video no longer than the clip, with several positions and views
C3_Witness ==
    /\ ValidConstant
    /\ VideoDone
    /\ self.clips_per_video >= 2
    /\ self.augs_per_clip >= 2
    /\ video_duration <= self.clip_duration
    /\ Len(hist) = ClipsPerVideoTotal

\* ------------------------------------------------------------- C4
\* (max(video_duration - clip_duration, 0) / clips_per_video) * clip_index
C4Start(clip_index) ==
    RMul(RDiv(RMax(Rat(video_duration - self.clip_duration), Zero),
              Rat(self.clips_per_video)),
         Rat(clip_index))

\* call number n (from 1) of the instance returned clip c, for the video of
\* duration video_duration
C4Call(n, c) ==
    LET j == (n - 1) \div self.augs_per_clip
    IN /\ c.aug_index = (n - 1) % self.augs_per_clip
       /\ c.clip_index = j % self.clips_per_video
       /\ c.clip_start_sec = C4Start(c.clip_index)

\* C4: ConstantClipsPerVideoSampler, augs_per_clip = k >= 1, clips_per_video > 0:
\* calls number j*k+1 .. j*k+k return the same clip_start_sec and clip_index,
\* with aug_index 0, 1, ..., k-1 in that order; clip_index of group j is
\* j mod clips_per_video and clip_start_sec is
\* (max(video_duration - clip_duration, 0) / clips_per_video) * clip_index.
C4_AugGroups ==
    ValidConstant =>
        /\ \A i \in 1..Len(hist) : C4Call(ncalls - Len(hist) + i, hist[i])
        /\ \A i \in 1..Len(hist) : \A h \in 1..Len(hist) :
             (i - 1) \div self.augs_per_clip = (h - 1) \div self.augs_per_clip
               => /\ hist[i].clip_start_sec = hist[h].clip_start_sec
                  /\ hist[i].clip_index = hist[h].clip_index

\* the last view of a later group (j >= clips_per_video) at a position > 0
C4_Witness ==
    /\ ValidConstant
    /\ self.augs_per_clip >= 2
    /\ ncalls > ClipsPerVideoTotal
    /\ hist # <<>>
    /\ Last(hist).clip_index >= 1
    /\ Last(hist).aug_index = self.augs_per_clip - 1
    /\ RLt(Zero, Last(hist).clip_start_sec)

\* ------------------------------------------------------------- C5
\* the instance the constructor returns for the configuration of self
FreshConstant ==
    ConstantClipsPerVideoSampler(
        <<self.clip_duration, self.clips_per_video, self.augs_per_clip>>).obj

\* the ClipInfos of the first n calls on instance s, all with video duration d
RECURSIVE ConstantRun(_, _, _)
ConstantRun(s, d, n) ==
    IF n = 0 THEN <<>>
    ELSE LET r == ConstantCall(s, Rat(d))
         IN <<r.info>> \o ConstantRun(r.self, d, n - 1)

\* C5: ConstantClipsPerVideoSampler reuse: after the call that returns
\* is_last_clip=True, current_clip_index == 0 and current_aug_index == 0, and
\* from then on the instance returns, for any next video_duration, the same
\* ClipInfo sequence as a freshly constructed instance of that configuration.
C5_ReuseAsFresh ==
    ValidConstant =>
        /\ (ncalls >= 1 /\ out.is_last_clip) =>
             /\ self.current_clip_index = 0
             /\ self.current_aug_index = 0
             /\ self = FreshConstant
        /\ hist = ConstantRun(FreshConstant, video_duration, Len(hist))

\* a second or later video served by the same instance, to its end
C5_Witness ==
    /\ ValidConstant
    /\ VideoDone
    /\ ncalls >= 2 * ClipsPerVideoTotal
    /\ ClipsPerVideoTotal >= 2
    /\ RLt(Zero, Last(hist).clip_start_sec)

\* ------------------------------------------------------------- C6
\* a call has returned a ClipInfo (out is the result of the last call)
Returned == ncalls >= 1 /\ out # NoClip

\* C6: RandomClipSampler, any video_duration > 0, any last_clip_time, any draw:
\* 0 <= clip_start_sec <= max(video_duration - clip_duration, 0),
\* clip_end_sec - clip_start_sec == clip_duration, clip_index == aug_index == 0,
\* is_last_clip == True; clip_start_sec is exactly 0 when
\* video_duration <= clip_duration.
C6_RandomBounds ==
    (IsRandom /\ Returned) =>
        /\ RLe(Zero, out.clip_start_sec)
        /\ RLe(out.clip_start_sec,
               RMax(Rat(video_duration - self.clip_duration), Zero))
        /\ RSub(out.clip_end_sec, out.clip_start_sec) = Rat(self.clip_duration)
        /\ out.clip_index = 0
        /\ out.aug_index = 0
        /\ out.is_last_clip = TRUE
        /\ video_duration <= self.clip_duration => out.clip_start_sec = Zero

\* scenario C, called with a last_clip_time other than 0
C6_Witness ==
    /\ IsRandom
    /\ Returned
    /\ self.clip_duration = 2
    /\ video_duration = 2
    /\ last_clip_time # Zero
    /\ out.clip_start_sec = Zero

\* ------------------------------------------------------------- C7
\* C7: all three samplers (clip_duration > 0), last_clip_time >= 0,
\* video_duration > 0: every ClipInfo has clip_start_sec >= 0,
\* clip_end_sec >= clip_start_sec and clip_end_sec - clip_start_sec ==
\* clip_duration, also for the UniformClipSampler window that backpad_last
\* shifted back and clamped.
C7_ClipGeometry ==
    (Returned /\ self.clip_duration > 0) =>
        /\ RLe(Zero, out.clip_start_sec)
        /\ RLe(out.clip_start_sec, out.clip_end_sec)
        /\ RSub(out.clip_end_sec, out.clip_start_sec) = Rat(self.clip_duration)

\* a window that started after 0, was shifted back past 0 and clamped there
C7_Witness ==
    /\ IsUniform
    /\ Returned
    /\ self.backpad_last
    /\ LET clip_start == UniformClipStart(self, last_clip_time)
           buffer_amount == RSub(RAdd(clip_start, Rat(self.clip_duration)),
                                 Rat(video_duration))
       IN /\ RLt(Zero, clip_start)
          /\ RLt(clip_start, buffer_amount)
    /\ out.clip_start_sec = Zero
    /\ out.clip_end_sec = Rat(self.clip_duration)

\* ------------------------------------------------------------- C8
\* the stride the constructor arguments ask for: clip_duration when the
\* stride is not given or None
C8Stride == IF Len(args) >= 2 /\ args[2] # None THEN args[2][1] ELSE args[1]

\* C8: UniformClipSampler construction succeeds if and only if
\* 0 < stride <= clip_duration for the effective stride (clip_duration when
\* stride is None); otherwise it fails with an error and yields no sampler.
C8_StrideValidated ==
    (sampling_type = "uniform" /\ pc # "new") =>
        IF 0 < C8Stride /\ C8Stride <= args[1]
        THEN /\ IsUniform
             /\ err = NoError
             /\ self.stride = C8Stride
             /\ self.clip_duration = args[1]
        ELSE /\ self = NoSampler
             /\ err.type = "AssertionError"
             /\ pc = "failed"

\* a construction refused for a stride of 0, which is not None
C8_Witness ==
    /\ sampling_type = "uniform"
    /\ pc = "failed"
    /\ args[1] > 0
    /\ Len(args) >= 2
    /\ args[2] = Some(0)

\* ------------------------------------------------------------- C9
C9Case == sampling_type \in {"random", "constant_clips_per_video"} /\ pc # "new"

\* C9 as stated: RandomClipSampler and ConstantClipsPerVideoSampler with
\* non-positive clips_per_video, augs_per_clip or clip_duration never fail:
\* construction succeeds and every call with video_duration > 0 returns a
\* ClipInfo without raising, in particular for clips_per_video == 0.
C9_NeverFails ==
    C9Case =>
        /\ self # NoSampler
        /\ err = NoError
        /\ ncalls >= 1 => out.class = "ClipInfo"

\* C9 amended: construction always succeeds, and every call with
\* video_duration > 0 returns a ClipInfo without raising unless
\* clips_per_video == 0; for clips_per_video == 0 every call raises
\* ZeroDivisionError (and leaves the instance as it was).
C9_FailsOnlyForZeroClips ==
    C9Case =>
        /\ self # NoSampler
        /\ self.class = IF sampling_type = "random" THEN "RandomClipSampler"
                        ELSE "ConstantClipsPerVideoSampler"
        /\ ncalls >= 1 =>
             IF IsConstant /\ self.clips_per_video = 0
             THEN /\ err.type = "ZeroDivisionError"
                  /\ out = NoClip
                  /\ self = ConstantClipsPerVideoSampler(args).obj
             ELSE /\ err = NoError
                  /\ out.class = "ClipInfo"
        /\ ncalls = 0 => err = NoError

\* a sampler with every value non-positive (clips_per_video < 0) that has
\* answered several calls
C9_Witness ==
    /\ IsConstant
    /\ self.clip_duration <= 0
    /\ self.clips_per_video < 0
    /\ self.augs_per_clip <= 0
    /\ ncalls >= 2
    /\ err = NoError
    /\ out.class = "ClipInfo"

\* ------------------------------------------------------------- C10
\* C10: make_clip_sampler returns a UniformClipSampler for "uniform", a
\* RandomClipSampler for "random", a ConstantClipsPerVideoSampler for
\* "constant_clips_per_video" (a failure for one of these names is the
\* constructor's own, never "not supported"); for every other name it fails
\* with a "not supported" error naming the given string and constructs no
\* sampler.
C10_Dispatch ==
    pc # "new" =>
        CASE sampling_type = "uniform" ->
               \/ IsUniform
               \/ self = NoSampler /\ err.type = "AssertionError"
          [] sampling_type = "random" -> IsRandom
          [] sampling_type = "constant_clips_per_video" -> IsConstant
          [] OTHER ->
               /\ self = NoSampler
               /\ pc = "failed"
               /\ err = [type |-> "NotImplementedError",
                         msg |-> sampling_type \o " not supported"]

\* a name that differs from a supported one only in case is refused
C10_Witness ==
    /\ sampling_type = "Uniform"
    /\ pc = "failed"
    /\ err.msg = "Uniform not supported"
    /\ self = NoSampler

\* ------------------------------------------------------------- C11
\* the first call of a video no longer than the clip has returned
C11Case ==
    /\ IsUniform
    /\ hist # <<>>
    /\ video_duration <= self.clip_duration

\* C11: UniformClipSampler, video_duration <= clip_duration, first call with
\* last_clip_time=0, any valid stride: with backpad_last=True the window is
\* [0, clip_duration]; with backpad_last=False the first call already returns
\* is_last_clip=True.
C11_ShortVideo ==
    C11Case =>
        IF self.backpad_last
        THEN /\ hist[1].clip_start_sec = Zero
             /\ hist[1].clip_end_sec = Rat(self.clip_duration)
        ELSE /\ hist[1].is_last_clip
             /\ Len(hist) = 1

\* overlapping windows (stride < clip_duration) on a video shorter than the clip
C11_Witness ==
    /\ C11Case
    /\ self.stride < self.clip_duration
    /\ video_duration < self.clip_duration
    /\ ~self.backpad_last
    /\ hist[1].is_last_clip

\* ------------------------------------------------------------- C12
\* the windows <<clip_start_sec, clip_end_sec>> of a sequence of ClipInfos
Windows(clips) == [i \in 1..Len(clips) |-> <<clips[i].clip_start_sec, clips[i].clip_end_sec>>]

\* the driver loop finished the docstring's video with the docstring's sampler
C12Case ==
    /\ IsUniform
    /\ self.clip_duration = DocClipFrames
    /\ self.stride = DocStrideFrames
    /\ video_duration = DocVideoFrames
    /\ VideoDone

\* C12: the docstring example in frame units (39 frames, clip_duration 32,
\* stride 16): with backpad_last=False the driver loop emits exactly one clip,
\* [0, 32]; with backpad_last=True exactly two, [0, 32] and then [8, 40].
C12_DocstringExample ==
    C12Case =>
        Windows(hist) = IF self.backpad_last
                        THEN <<<<Rat(0), Rat(32)>>, <<Rat(8), Rat(40)>>>>
                        ELSE <<<<Rat(0), Rat(32)>>>>

\* what the code does on the example: the second clip is [7, 39]
C12_CodeOnExample ==
    C12Case =>
        Windows(hist) = IF self.backpad_last
                        THEN <<<<Rat(0), Rat(32)>>, <<Rat(7), Rat(39)>>>>
                        ELSE <<<<Rat(0), Rat(32)>>>>

\* ------------------------------------------------------------- C13
\* window i > 1 of the driver loop was not shifted back by backpad_last: the
\* window that starts stride after the previous start fits into the video
C13Unshifted(i) ==
    \/ ~self.backpad_last
    \/ RLe(RAdd(hist[i - 1].clip_end_sec, Rat(self.stride)), Rat(video_duration))

\* C13: UniformClipSampler, any stride in (0, clip_duration], driver loop: the
\* first window starts at 0 and every following window that backpad_last did
\* not shift back starts exactly stride after the start of the previous one.
C13_AdvanceByStride ==
    IsUniform =>
        \A i \in 1..Len(hist) :
            IF i = 1
            THEN hist[i].clip_start_sec = Zero
            ELSE C13Unshifted(i) =>
                   hist[i].clip_start_sec
                     = RAdd(hist[i - 1].clip_start_sec, Rat(self.stride))

\* three overlapping windows, the third one stride after the second
C13_Witness ==
    /\ IsUniform
    /\ self.stride < self.clip_duration
    /\ Len(hist) >= 3
    /\ C13Unshifted(3)
    /\ hist[3].clip_start_sec = Rat(2 * self.stride)

\* ------------------------------------------------------------- C14
C14Case == IsUniform /\ self.backpad_last

\* windows a and b agree within eps, start and end
SameWindow(a, b) ==
    /\ WithinEps(a.clip_start_sec, b.clip_start_sec)
    /\ WithinEps(a.clip_end_sec, b.clip_end_sec)

\* is_last_clip is True exactly when the next call of the chain returns the
\* same window (within eps)
C14Saturated ==
    \A i \in 1..(Len(hist) - 1) :
        hist[i].is_last_clip <=> SameWindow(hist[i + 1], hist[i])

\* C14 as stated: backpad_last=True: is_last_clip is True exactly when the
\* window has saturated (a further call fed clip_end_sec returns the same
\* window within eps), and once saturated every further call of the chain
\* returns that same window again with is_last_clip=True.
C14_SaturatedForGood ==
    C14Case =>
        /\ C14Saturated
        /\ \A i \in 1..Len(hist) : \A j \in (i + 1)..Len(hist) :
             hist[i].is_last_clip =>
                 /\ hist[j].is_last_clip
                 /\ SameWindow(hist[j], hist[i])

\* C14 amended: is_last_clip is True exactly when the next call of the chain
\* returns the same window within eps; once it is True every further call
\* returns is_last_clip=True and a window within eps of the one before it,
\* which is the saturated window itself (within eps) when stride >= eps; with
\* stride < eps the window may keep advancing by stride per call.
C14_SaturatedStepwise ==
    C14Case =>
        /\ C14Saturated
        /\ \A i \in 1..Len(hist) : \A j \in (i + 1)..Len(hist) :
             hist[i].is_last_clip =>
                 /\ hist[j].is_last_clip
                 /\ SameWindow(hist[j], hist[j - 1])
                 /\ self.stride >= self.eps => SameWindow(hist[j], hist[i])

\* a chain that went on for two calls after the window saturated at the end
\* of the video, after an unsaturated first window
C14_Witness ==
    /\ C14Case
    /\ self.stride >= self.eps
    /\ Len(hist) >= 4
    /\ ~hist[1].is_last_clip
    /\ hist[Len(hist) - 2].is_last_clip
    /\ Last(hist).is_last_clip
    /\ Last(hist).clip_end_sec = Rat(video_duration)
    /\ Windows(hist)[Len(hist)] = Windows(hist)[Len(hist) - 2]

\* ------------------------------------------------------------- C15
\* C15: UniformClipSampler never resets its counter: the n-th call on an
\* instance (n from 0) returns clip_index == n and aug_index == 0, whatever
\* the last_clip_time and video_duration arguments, also after a call that
\* returned is_last_clip=True; clip_index is strictly increasing.
C15_IndexCountsCalls ==
    (IsUniform /\ Returned) =>
        /\ out.clip_index = ncalls - 1
        /\ out.aug_index = 0
        /\ self.current_clip_index = ncalls
        /\ self.current_aug_index = 0

\* a fourth call, the last clip of its video, with a last_clip_time beyond
\* the end of the video
C15_Witness ==
    /\ IsUniform
    /\ ncalls = 4
    /\ out.clip_index = 3
    /\ out.is_last_clip
    /\ RLt(Rat(video_duration), last_clip_time)

\* ---------------------------------------------------------------------------
\* C16: two callers on one instance.  When the second caller enters __call__
\* only after the first has returned, the two results and the counters are
\* those of two calls in a row, and on a UniformClipSampler or on a
\* ConstantClipsPerVideoSampler that draws at least two clips per video the
\* two returned (clip_index, aug_index) pairs differ.  When the callers
\* overlap, both can return the same pair and an increment can be lost
\* (C16_Witness).
RaceBothDone == \A t \in Threads : threads[t].pc = "done"

RacePair(t) == <<threads[t].ret.clip_index, threads[t].ret.aug_index>>

RaceFresh == [self EXCEPT !.current_clip_index = 0, !.current_aug_index = 0]

SerialCall(s, d) ==
    IF s.class = "UniformClipSampler" THEN UniformCall(s, Zero, Rat(d))
    ELSE ConstantCall(s, Rat(d))

\* the callers' results and the counters are those of t1's call followed by t2's
RaceSerial(t1, t2) ==
    LET r1 == SerialCall(RaceFresh, threads[t1].d)
        r2 == SerialCall(r1.self, threads[t2].d)
    IN /\ threads[t1].ret = r1.info
       /\ threads[t2].ret = r2.info
       /\ self = r2.self

RaceSomeSerial == RaceSerial(1, 2) \/ RaceSerial(2, 1)

C16_SerialCallsDiffer ==
    (/\ RaceBothDone
     /\ ~overlapped
     /\ IsUniform \/ (ValidConstant /\ ClipsPerVideoTotal >= 2)) =>
        /\ RacePair(1) # RacePair(2)
        /\ RaceSomeSerial

\* C16 as stated: calls one after the other never return the same pair, on
\* any UniformClipSampler or ConstantClipsPerVideoSampler
C16_SerialCallsAlwaysDiffer ==
    (/\ RaceBothDone
     /\ ~overlapped
     /\ IsUniform \/ ValidConstant) =>
        /\ RacePair(1) # RacePair(2)
        /\ RaceSomeSerial

C16_Witness ==
    /\ RaceBothDone
    /\ overlapped
    /\ IsUniform \/ (ValidConstant /\ ClipsPerVideoTotal >= 2)
    /\ RacePair(1) = RacePair(2)
    /\ ~RaceSomeSerial

\* ---------------------------------------------------------------------------
\* C17: the driver loop over a UniformClipSampler terminates.  On a video of
\* video_duration > 0 the chain of calls returns is_last_clip = True no later
\* than its (ceil(max(video_duration - clip_duration, 0) / stride) + 1)-th
\* call, with and without backpad_last, so the loop never makes more calls
\* than that on one video.
C17MaxClips ==
    LET room == IF video_duration > self.clip_duration
                THEN video_duration - self.clip_duration ELSE 0
    IN ((room + self.stride - 1) \div self.stride) + 1

C17_DriverTerminates ==
    (IsUniform /\ pc \in {"sampling", "idle"} /\ hist # <<>>) =>
        /\ Len(hist) <= C17MaxClips
        /\ Len(hist) = C17MaxClips => Last(hist).is_last_clip
        /\ \A i \in 1..(Len(hist) - 1) : ~hist[i].is_last_clip

C17_Witness ==
    /\ IsUniform
    /\ VideoDone
    /\ Len(hist) = C17MaxClips
    /\ Len(hist) >= 4
    /\ Last(hist).is_last_clip
    /\ self.stride < self.clip_duration

\* ---------------------------------------------------------------------------
\* C18: what backpad_last changes in the sequence of windows of one video.
\* The windows the driver loop draws from instance s on a video of duration d,
\* starting after last_clip_time_, in at most n calls
RECURSIVE UniformRun(_, _, _, _)
UniformRun(s, last_clip_time_, d, n) ==
    IF n = 0 THEN <<>>
    ELSE LET r == UniformCall(s, last_clip_time_, Rat(d))
         IN IF r.info.is_last_clip THEN <<r.info>>
            ELSE <<r.info>> \o UniformRun(r.self, r.info.clip_end_sec, d, n - 1)

\* the same sampler built with backpad_last = False
NoBackpadTwin == [self EXCEPT !.backpad_last = FALSE, !.current_clip_index = 0]

NoBackpadWindows == Windows(UniformRun(NoBackpadTwin, Zero, video_duration, MaxCalls))

BackpadExtraWindow ==
    <<Rat(video_duration - self.clip_duration), Rat(video_duration)>>

C18Case ==
    /\ IsUniform
    /\ self.backpad_last
    /\ VideoDone
    /\ video_duration >= self.clip_duration

\* C18 as stated: the backpad sequence is the no-backpad sequence, followed by
\* [video_duration - clip_duration, video_duration] exactly when the last
\* no-backpad window ends before video_duration
C18_ExtraWindowWheneverShort ==
    C18Case =>
        LET nb == NoBackpadWindows
        IN Windows(hist) =
             IF RLt(Last(nb)[2], Rat(video_duration))
             THEN nb \o <<BackpadExtraWindow>>
             ELSE nb

\* C18 as the code has it: with stride >= eps the extra window is present
\* exactly when the last no-backpad window ends at least eps before
\* video_duration; with stride < eps the backpad sequence is the first window
\* alone.
C18_ExtraWindowWhenEpsShort ==
    C18Case =>
        LET nb == NoBackpadWindows
        IN Windows(hist) =
             IF self.stride < self.eps
             THEN <<nb[1]>>
             ELSE IF RLe(Rat(self.eps), RSub(Rat(video_duration), Last(nb)[2]))
                  THEN nb \o <<BackpadExtraWindow>>
                  ELSE nb

C18_Witness ==
    /\ C18Case
    /\ self.stride >= self.eps
    /\ Len(NoBackpadWindows) >= 2
    /\ Len(hist) = Len(NoBackpadWindows) + 1
    /\ Last(Windows(hist)) = BackpadExtraWindow

\* ---------------------------------------------------------------------------
\* C19: in exact arithmetic the second completion test of
\* ConstantClipsPerVideoSampler never decides.  For clips_per_video > 0,
\* augs_per_clip >= 1 and video_duration > 0, uniform_clip * index >
\* max_possible_clip_start implies index >= clips_per_video for every index,
\* so a call returns is_last_clip exactly when the updated counter has reached
\* clips_per_video, which is when it returns the last augmentation of
\* position clips_per_video - 1.
\* self._current_clip_index as the last call left it after lines 227-230
C19IndexAfterUpdate ==
    AdvanceAug([self EXCEPT !.current_clip_index = out.clip_index,
                            !.current_aug_index = out.aug_index])[1]

C19GuardTrips(index) ==
    LET max_possible_clip_start == MaxPossibleClipStart(self, Rat(video_duration))
        uniform_clip == RDiv(max_possible_clip_start, Rat(self.clips_per_video))
    IN RLt(max_possible_clip_start, RMul(uniform_clip, Rat(index)))

C19_GuardIsRedundant ==
    (ValidConstant /\ Returned /\ video_duration > 0) =>
        /\ \A index \in 0..(self.clips_per_video + 1) :
              C19GuardTrips(index) => index >= self.clips_per_video
        /\ ~(C19GuardTrips(C19IndexAfterUpdate)
              /\ C19IndexAfterUpdate < self.clips_per_video)
        /\ out.is_last_clip <=> C19IndexAfterUpdate >= self.clips_per_video
        /\ out.is_last_clip =>
              /\ out.clip_index = self.clips_per_video - 1
              /\ out.aug_index = self.augs_per_clip - 1

C19_Witness ==
    /\ ValidConstant
    /\ Returned
    /\ video_duration > self.clip_duration
    /\ self.clip_duration > 0
    /\ self.clips_per_video >= 2
    /\ self.augs_per_clip >= 2
    /\ out.is_last_clip
    /\ C19GuardTrips(self.clips_per_video + 1)
    /\ ~C19GuardTrips(C19IndexAfterUpdate)

\* ---------------------------------------------------------------------------
\* C20: counter bounds of ConstantClipsPerVideoSampler.  For clips_per_video > 0
\* and augs_per_clip >= 1, after construction and after every call, whatever
\* the video durations passed, 0 <= current_clip_index < clips_per_video and
\* 0 <= current_aug_index < augs_per_clip; every returned clip_index is in
\* 0..clips_per_video-1, every returned aug_index in 0..augs_per_clip-1, and
\* every returned clip_start_sec is at most max(video_duration - clip_duration, 0).
C20_CountersInRange ==
    ValidConstant =>
        /\ self.current_clip_index \in 0..(self.clips_per_video - 1)
        /\ self.current_aug_index \in 0..(self.augs_per_clip - 1)
        /\ Returned =>
              /\ out.clip_index \in 0..(self.clips_per_video - 1)
              /\ out.aug_index \in 0..(self.augs_per_clip - 1)
              /\ RLe(Zero, out.clip_start_sec)
              /\ RLe(out.clip_start_sec,
                     RMax(RSub(Rat(video_duration), Rat(self.clip_duration)), Zero))

C20_Witness ==
    /\ ValidConstant
    /\ Returned
    /\ self.clips_per_video >= 2
    /\ self.augs_per_clip >= 2
    /\ ncalls > ClipsPerVideoTotal
    /\ out.clip_index = 0
    /\ out.aug_index = 0
    /\ self.current_aug_index = 1
    /\ video_duration > self.clip_duration
=============================================================================
